---------------------------- MODULE Spec2Model ----------------------------
(***************************************************************************)
(* The report-generation engine of the Business Analytics dashboard        *)
(* (src/app.py): the /api/generate_report handler and the five reports of  *)
(* ReportGenerator, run against a MongoDB collection of yearly company     *)
(* records.                                                                *)
(*                                                                         *)
(* Units.  TLC's integers are 32 bits wide and have no fractions, so a     *)
(* currency amount is a whole number of millions of dollars and a          *)
(* percentage field (a ratio such as 0.85) is a whole number of            *)
(* hundredths.  $min, $max, $avg, $sort and the interval tests of $bucket  *)
(* commute with this change of unit.  An average is kept exact, as a       *)
(* reduced fraction <<numerator, denominator>>; the rounding of the        *)
(* database's doubles is not modelled.  The timestamp generated_at is      *)
(* left out of the results.                                                *)
(***************************************************************************)
EXTENDS Integers, Sequences, FiniteSets, TLC

VARIABLES
    collection,  \* the Record Source: the documents of company_metrics, in storage order
    request,     \* the JSON body of the POST in flight
    response,    \* the JSON body answered to it
    queries,     \* number of collection.aggregate calls made for the request
    failed,      \* which of these calls the Record Source failed (0: none)
    pc,          \* "idle" | "received" | "responded"
    earlier,     \* history: a request answered before and the answer it got
    bondRecords, \* the documents of bond_records (src/mongodb_bond_alert.py)
    alerts,      \* the documents of the alerts collection, in insertion order
    clock,       \* datetime.now(), in half hours
    returned,    \* what the last check_alerts call returned
    log          \* history: time, threshold and alert store of each check_alerts call

app == <<collection, request, response, queries, failed, pc, earlier>>
bond == <<bondRecords, alerts, clock, returned, log>>
vars == <<collection, request, response, queries, failed, pc, earlier,
          bondRecords, alerts, clock, returned, log>>

\* ------------------------------------------------------------ bounds
\* Largest number of documents in the collection.
MaxRecs == 3

\* Length of the collections that outgrow the $limit of the comparison.
LongRecs == 11

\* Length of the collection that outgrows the $limit of the chat sample.
HugeRecs == 1001

\* Largest number of documents in the collection of the repeated requests.
RunRecs == 2

\* Latest time on the clock of the bond alerts, and the most check_alerts calls.
MaxTime == 4
MaxCalls == 3

\* ------------------------------------------------------------ values
\* BSON null (Python None).
Null == <<>>

\* A number of a result document: the reduced fraction n/1.
Num(n) == <<n, 1>>

\* A string of a result document (the "Other" of $bucket).
Str(s) == <<s>>

Abs(x) == IF x < 0 THEN -x ELSE x

RECURSIVE GCD(_, _)
GCD(a, b) == IF b = 0 THEN a ELSE GCD(b, a % b)

\* The quotient n/d (d > 0) as a reduced fraction.
Frac(n, d) == LET g == GCD(Abs(n), d) IN <<n \div g, d \div g>>

\* q1 <= q2 for two fractions with positive denominators.
FracLeq(q1, q2) == q1[1] * q2[2] <= q2[1] * q1[2]

\* The sum of a sequence of numbers, by halves (a sample has up to 1000 terms).
RECURSIVE Sum(_)
Sum(s) ==
    IF s = <<>> THEN 0
    ELSE IF Len(s) = 1 THEN s[1]
    ELSE LET half == Len(s) \div 2
         IN Sum(SubSeq(s, 1, half)) + Sum(SubSeq(s, half + 1, Len(s)))

Range(s) == {s[i] : i \in DOMAIN s}

RECURSIVE SetToSeq(_)
SetToSeq(S) ==
    IF S = {} THEN <<>>
    ELSE LET x == CHOOSE x \in S : TRUE IN <<x>> \o SetToSeq(S \ {x})

SetMin(S) == CHOOSE x \in S : \A y \in S : x <= y
SetMax(S) == CHOOSE x \in S : \A y \in S : y <= x

\* ------------------------------------------------------------ field catalog
\* get_available_fields: value, label and type of each selectable field.
AvailableFields ==
    << [value |-> "Total_Revenue",  label |-> "Total Revenue",  type |-> "currency"],
       [value |-> "Total_Sales",    label |-> "Total Sales",    type |-> "currency"],
       [value |-> "Year",           label |-> "Year",           type |-> "number"],
       [value |-> "Profit_Margin",  label |-> "Profit Margin",  type |-> "percentage"],
       [value |-> "Revenue_Growth", label |-> "Revenue Growth", type |-> "percentage"],
       [value |-> "Market_Cap",     label |-> "Market Cap",     type |-> "currency"],
       [value |-> "Record_ID",      label |-> "Record ID",      type |-> "number"] >>

\* The hard-coded membership lists the reports branch on.
CurrencyFields == {"Total_Revenue", "Total_Sales", "Market_Cap"}
PercentageFields == {"Profit_Margin", "Revenue_Growth"}

\* ------------------------------------------------------------ record source
\* A document of the collection (generate_batch's columns).
Doc(y, rev, sales, margin, growth, cap, rid) ==
    [f \in {"Year", "Total_Revenue", "Total_Sales", "Profit_Margin",
            "Revenue_Growth", "Market_Cap", "Record_ID"} |->
        CASE f = "Year" -> y
          [] f = "Total_Revenue" -> rev
          [] f = "Total_Sales" -> sales
          [] f = "Profit_Margin" -> margin
          [] f = "Revenue_Growth" -> growth
          [] f = "Market_Cap" -> cap
          [] OTHER -> rid]

\* The documents the collections of the model are made of.
DocPool ==
    { Doc(2020, 10, 8, 80, -5, 10, 1),
      Doc(2020, 20, 18, 100, 10, 5000, 2),
      Doc(2020, 100, 60, 60, 0, -3, 1000),
      Doc(2021, 200, 170, 85, 10, 6000, 3),
      Doc(2019, 0, 0, 0, -20, 0, 50000) }

RECURSIVE SeqsUpTo(_, _)
SeqsUpTo(S, n) ==
    IF n = 0 THEN {<<>>}
    ELSE LET shorter == SeqsUpTo(S, n - 1)
         IN shorter \cup {Append(s, x) : s \in shorter, x \in S}

\* Collections of more documents than the comparison keeps: copies of one
\* document and, stored last or first, a document of another year with the
\* same Revenue_Growth.
LongCollections ==
    LET c == Doc(2020, 20, 18, 100, 10, 5000, 2)
        d == Doc(2021, 200, 170, 85, 10, 6000, 3)
    IN { [i \in 1..LongRecs |-> IF i < LongRecs THEN c ELSE d],
         [i \in 1..LongRecs |-> IF i = 1 THEN d ELSE c] }

\* A collection of more documents than the chat sample takes: the last
\* document, of another year, is the one beyond the sample.
HugeCollections ==
    { [i \in 1..HugeRecs |-> IF i < HugeRecs THEN Doc(2020, 10, 8, 80, -5, 10, 1)
                             ELSE Doc(2021, 200, 170, 85, 10, 6000, 3)] }

\* Collections of records of three years, the earliest with revenue.
YearsCollections ==
    LET a == Doc(2020, 10, 8, 80, -5, 10, 1)
        c == Doc(2020, 20, 18, 100, 10, 5000, 2)
        d == Doc(2021, 200, 170, 85, 10, 6000, 3)
        e == Doc(2022, 30, 25, 50, 20, 500, 4)
    IN { <<a, d, e>>, <<e, a, d, c>> }

Collections ==
    SeqsUpTo(DocPool, MaxRecs) \cup LongCollections \cup HugeCollections
        \cup YearsCollections

\* ------------------------------------------------------------ requests
\* int(year) of a year the client sends as text; a text that is no number
\* is outside the table and makes int() raise ValueError.
IntOfText ==
    [t \in {"2019", "2020", "2021", "2022"} |->
        CASE t = "2019" -> 2019 [] t = "2020" -> 2020
          [] t = "2021" -> 2021 [] OTHER -> 2022]

ReportTypes == {"summary", "trend", "comparison", "distribution", "chat", "forecast"}

FieldSelections ==
    { <<>>,
      <<"Total_Revenue">>,
      <<"Profit_Margin">>,
      <<"Record_ID">>,
      <<"Bogus">>,
      <<"Year", "Total_Revenue">>,
      <<"Total_Revenue", "Profit_Margin">>,
      <<"Revenue_Growth", "Market_Cap", "Total_Revenue", "Revenue_Growth">> }

YearSelections ==
    { <<>>, <<"2020">>, <<"2021", "2019">>, <<"2022">>, <<"20x1">> }

\* The free-text question, word by word.
Questions ==
    { <<>>,
      <<"Revenue", "and", "PROFIT">>,
      <<"GrowthRate", "of", "revenues">> }

\* A variant of the comparison that keeps the case of the question.
LowerOf_CaseKept(w) == w

\* str.lower of a word.
LowerOf(w) ==
    CASE w = "Revenue" -> "revenue"
      [] w = "PROFIT" -> "profit"
      [] w = "GrowthRate" -> "growthrate"
      [] OTHER -> w

\* kw in text, for a lower-case word: the keywords each word holds.
KeywordsIn(w) ==
    CASE w \in {"revenue", "revenues"} -> {"revenue"}
      [] w = "profit" -> {"profit"}
      [] w \in {"growth", "growthrate"} -> {"growth"}
      [] OTHER -> {}

\* kw in question.lower()
InLowered(kw, question) ==
    \E i \in DOMAIN question : kw \in KeywordsIn(LowerOf(question[i]))

Requests ==
    [report_type : ReportTypes, fields : FieldSelections,
     years : YearSelections, question : Questions]

\* The requests sent to a collection: the collection that outgrows the chat
\* sample is asked for chat insights only.
RequestsFor(coll) ==
    IF Len(coll) < HugeRecs THEN Requests
    ELSE {r \in Requests : r.report_type = "chat"}

\* ------------------------------------------------------------ pipeline stages
\* [int(year) for year in years] can be built: every year is a number.
YearsParse(years) == \A i \in DOMAIN years : years[i] \in DOMAIN IntOfText

IntYears(years) == {IntOfText[years[i]] : i \in DOMAIN years}

\* A variant of the stage that matches the first selected year only.
MatchesYear_FirstOnly(d, years) == "Year" \in DOMAIN d /\ d["Year"] = IntOfText[years[1]]

\* The $match stage when there is one: {"Year": {"$in": [...]}}.
MatchesYear(d, years) == "Year" \in DOMAIN d /\ d["Year"] \in IntYears(years)

\* `if years:` no $match stage for an empty selection.
Match(docs, years) ==
    IF years = <<>> THEN docs
    ELSE SelectSeq(docs, LAMBDA d : MatchesYear(d, years))

\* $project of the named keys (_id: 0).
Project(docs, keys) ==
    [i \in DOMAIN docs |-> [k \in DOMAIN docs[i] \cap keys |-> docs[i][k]]]

\* The values "$field" takes over the documents that have the field.
Values(docs, f) ==
    LET has == SelectSeq(docs, LAMBDA d : f \in DOMAIN d)
    IN [i \in DOMAIN has |-> has[i][f]]

\* $min, $max, $avg skip a missing field and give null over nothing;
\* $sum gives 0 over nothing.
MongoMin(vals) == IF vals = <<>> THEN Null ELSE Num(SetMin(Range(vals)))
MongoMax_Last(vals) == IF vals = <<>> THEN Null ELSE Num(vals[Len(vals)])
MongoMax(vals) == IF vals = <<>> THEN Null ELSE Num(SetMax(Range(vals)))
MongoAvg_Distinct(vals) ==
    IF vals = <<>> THEN Null
    ELSE Frac(Sum(SetToSeq(Range(vals))), Cardinality(Range(vals)))
MongoAvg(vals) == IF vals = <<>> THEN Null ELSE Frac(Sum(vals), Len(vals))
MongoSum(vals) == Num(Sum(vals))

\* A variant of $limit that lets one document more through.
Limit_OneMore(docs, n) == SubSeq(docs, 1, IF Len(docs) < n + 1 THEN Len(docs) ELSE n + 1)

\* $limit
Limit(docs, n) == SubSeq(docs, 1, IF Len(docs) < n THEN Len(docs) ELSE n)

\* ------------------------------------------------------------ summary
\* The accumulators of the $group of a currency field.
CurrencyStats(docs, f) ==
    [k \in {"_id", "min", "max", "avg", "sum", "count"} |->
        CASE k = "_id" -> Null
          [] k = "min" -> MongoMin(Values(docs, f))
          [] k = "max" -> MongoMax(Values(docs, f))
          [] k = "avg" -> MongoAvg(Values(docs, f))
          [] k = "sum" -> MongoSum(Values(docs, f))
          [] OTHER -> Num(Len(docs))]

\* The accumulators of the $group of a percentage or number field.
PlainStats(docs, f) ==
    [k \in {"_id", "min", "max", "avg", "count"} |->
        CASE k = "_id" -> Null
          [] k = "min" -> MongoMin(Values(docs, f))
          [] k = "max" -> MongoMax(Values(docs, f))
          [] k = "avg" -> MongoAvg(Values(docs, f))
          [] OTHER -> Num(Len(docs))]

\* A variant of the branches that gives every field the currency accumulators.
SummaryStats_AlwaysSum(docs, f) ==
    IF docs = <<>> THEN <<>> ELSE <<CurrencyStats(docs, f)>>

\* A variant of the $group that answers no document with zero-count statistics.
SummaryStats_ZeroCount(docs, f) ==
    IF f \in CurrencyFields THEN <<CurrencyStats(docs, f)>> ELSE <<PlainStats(docs, f)>>

\* The $group with _id None of the field's branch; a $group over no
\* document returns no document.
SummaryStats(docs, f) ==
    IF docs = <<>> THEN <<>>
    ELSE IF f \in CurrencyFields THEN <<CurrencyStats(docs, f)>>
    ELSE IF f \in PercentageFields THEN <<PlainStats(docs, f)>>
    ELSE <<PlainStats(docs, f)>>

\* `if stats: results[field] = stats[0]`
SummaryResults(docs, fields) ==
    LET projected == Project(docs, Range(fields))
        kept == {f \in Range(fields) : SummaryStats(projected, f) # <<>>}
    IN [f \in kept |-> SummaryStats(projected, f)[1]]

\* An outcome of a report: what it returns, or the exception it raises,
\* and the aggregate calls it made.
Returned(result, n) == [raised |-> FALSE, result |-> result, calls |-> n, failed |-> 0]
Raised(error, n) == [raised |-> TRUE, error |-> error, calls |-> n, failed |-> 0]

ValueError == "invalid literal for int() with base 10"

generate_summary_report(coll, fields, years) ==
    IF ~YearsParse(years) THEN {Raised(ValueError, 0)}
    ELSE {Returned([type |-> "summary", fields |-> fields, years |-> years,
                    data |-> SummaryResults(Match(coll, years), fields)],
                   Len(fields))}

\* ------------------------------------------------------------ trend
\* The distinct values of "$Year", in the order the documents bring them.
RECURSIVE GroupKeys(_)
GroupKeys(docs) ==
    IF docs = <<>> THEN <<>>
    ELSE LET rest == GroupKeys(SubSeq(docs, 1, Len(docs) - 1))
             y == docs[Len(docs)]["Year"]
         IN IF y \in Range(rest) THEN rest ELSE Append(rest, y)

\* A variant of the group that averages Year like any other selected field.
TrendGroup_YearAveraged(docs, fields, y) ==
    LET members == SelectSeq(docs, LAMBDA d : d["Year"] = y)
    IN [k \in {"_id"} \cup Range(fields) |->
          IF k = "_id" THEN Num(y) ELSE MongoAvg(Values(members, k))]

\* The group of one year: _id and the $avg of every selected field but Year.
TrendGroup(docs, fields, y) ==
    LET members == SelectSeq(docs, LAMBDA d : d["Year"] = y)
    IN [k \in {"_id"} \cup (Range(fields) \ {"Year"}) |->
          IF k = "_id" THEN Num(y) ELSE MongoAvg(Values(members, k))]

\* $group by "$Year".
GroupByYear(docs, fields) ==
    LET keys == GroupKeys(docs)
    IN [i \in DOMAIN keys |-> TrendGroup(docs, fields, keys[i])]

\* A variant of the pipeline without its $sort stage.
SortById_Unsorted(groups) == groups

\* {"$sort": {"_id": 1}} over groups, whose _id are pairwise distinct.
RECURSIVE SortById(_)
SortById(groups) ==
    IF groups = <<>> THEN <<>>
    ELSE LET i == CHOOSE i \in DOMAIN groups :
                    \A j \in DOMAIN groups : FracLeq(groups[i]["_id"], groups[j]["_id"])
         IN <<groups[i]>> \o
            SortById(SubSeq(groups, 1, i - 1) \o SubSeq(groups, i + 1, Len(groups)))

generate_trend_report(coll, fields, years) ==
    IF ~YearsParse(years) THEN {Raised(ValueError, 0)}
    ELSE LET docs == Project(Match(coll, years), {"Year"} \cup Range(fields))
         IN {Returned([type |-> "trend", fields |-> fields, years |-> years,
                       data |-> SortById(GroupByYear(docs, fields))], 1)}

\* ------------------------------------------------------------ comparison
\* $limit of the top and bottom performers.
TopLimit == 10

\* The sort key of a document: a missing field sorts as null, before every number.
SortKey(d, f) == IF f \in DOMAIN d THEN <<1, d[f]>> ELSE <<0, 0>>

KeyLeq(k1, k2) == k1[1] < k2[1] \/ (k1[1] = k2[1] /\ k1[2] <= k2[2])

\* A variant of the sort that orders equal keys by Total_Revenue, as a $sort
\* over every selected field would.
MayPrecede_TieBreak(d1, d2, f, dir) ==
    LET k1 == SortKey(d1, f)
        k2 == SortKey(d2, f)
        r1 == IF "Total_Revenue" \in DOMAIN d1 THEN d1["Total_Revenue"] ELSE 0
        r2 == IF "Total_Revenue" \in DOMAIN d2 THEN d2["Total_Revenue"] ELSE 0
    IN IF k1 = k2 THEN r1 <= r2
       ELSE IF dir = 1 THEN KeyLeq(k1, k2) ELSE KeyLeq(k2, k1)

\* d1 may come before d2 under {"$sort": {f: dir}}.
MayPrecede(d1, d2, f, dir) ==
    IF dir = 1 THEN KeyLeq(SortKey(d1, f), SortKey(d2, f))
    ELSE KeyLeq(SortKey(d2, f), SortKey(d1, f))

\* The orders $sort may return: the database leaves the order of documents
\* with equal keys open, so every order of the ties is an outcome (of equal
\* documents, which no order tells apart, the first stored is taken).
RECURSIVE SortOutcomes(_, _, _)
SortOutcomes(docs, f, dir) ==
    IF docs = <<>> THEN {<<>>}
    ELSE LET firsts == {i \in DOMAIN docs :
                          /\ \A j \in DOMAIN docs : MayPrecede(docs[i], docs[j], f, dir)
                          /\ \A j \in 1..(i - 1) : docs[j] # docs[i]}
         IN UNION {
              {<<docs[i]>> \o rest :
                 rest \in SortOutcomes(SubSeq(docs, 1, i - 1)
                                       \o SubSeq(docs, i + 1, Len(docs)), f, dir)}
              : i \in firsts}

\* A variant that ranks every kind of field as it ranks a currency field.
TopDirection_AlwaysDescending(f) == -1

\* The direction of the top performers; the bottom performers take the opposite.
TopDirection(f) == IF f \in CurrencyFields THEN -1 ELSE 1

\* A variant whose second pipeline sorts as the first one does.
generate_comparison_report_OneDirection(coll, fields, years) ==
    IF ~YearsParse(years) THEN {Raised(ValueError, 0)}
    ELSE LET docs == Project(Match(coll, years), {"Year"} \cup Range(fields))
             dir == TopDirection(fields[1])
         IN {Returned([type |-> "comparison", fields |-> fields, years |-> years,
                       data |-> [top_performers |-> Limit(top, TopLimit),
                                 bottom_performers |-> Limit(bottom, TopLimit)]], 2)
               : top \in SortOutcomes(docs, fields[1], dir),
                 bottom \in SortOutcomes(docs, fields[1], dir)}

generate_comparison_report(coll, fields, years) ==
    IF ~YearsParse(years) THEN {Raised(ValueError, 0)}
    ELSE LET docs == Project(Match(coll, years), {"Year"} \cup Range(fields))
             dir == TopDirection(fields[1])
         IN {Returned([type |-> "comparison", fields |-> fields, years |-> years,
                       data |-> [top_performers |-> Limit(top, TopLimit),
                                 bottom_performers |-> Limit(bottom, TopLimit)]], 2)
               : top \in SortOutcomes(docs, fields[1], dir),
                 bottom \in SortOutcomes(docs, fields[1], -dir)}

\* ------------------------------------------------------------ distribution
\* The $bucket boundaries of each branch (currency in millions, percentages
\* in hundredths).
CurrencyBoundaries == <<0, 10, 100, 1000, 5000>>
PercentageBoundaries == <<-100, -20, 0, 10, 20, 50, 100>>
NumberBoundaries == <<0, 1000, 5000, 10000, 50000>>

BoundariesOf(f) ==
    IF f \in CurrencyFields THEN CurrencyBoundaries
    ELSE IF f \in PercentageFields THEN PercentageBoundaries
    ELSE NumberBoundaries

\* A variant of the bucket that takes its upper boundary and not its lower one.
InBucket_UpperInclusive(docs, f, lo, hi) ==
    SelectSeq(docs, LAMBDA d : f \in DOMAIN d /\ lo < d[f] /\ d[f] <= hi)

\* The documents of the bucket [lo, hi).
InBucket(docs, f, lo, hi) ==
    SelectSeq(docs, LAMBDA d : f \in DOMAIN d /\ lo <= d[f] /\ d[f] < hi)

\* A variant of the default bucket that leaves the last boundary itself out.
InDefault_LastExcluded(docs, f, bounds) ==
    SelectSeq(docs, LAMBDA d :
        f \notin DOMAIN d \/ d[f] < bounds[1] \/ d[f] > bounds[Len(bounds)])

\* The documents of the default bucket: no value, or a value outside the boundaries.
InDefault(docs, f, bounds) ==
    SelectSeq(docs, LAMBDA d :
        f \notin DOMAIN d \/ d[f] < bounds[1] \/ d[f] >= bounds[Len(bounds)])

BucketDoc(id, members, f) ==
    [_id |-> id, count |-> Num(Len(members)), avg |-> MongoAvg(Values(members, f))]

\* A variant of $bucket that returns a document for a bucket without documents.
RECURSIVE NumericBuckets_WithEmpty(_, _, _, _)
NumericBuckets_WithEmpty(docs, f, bounds, i) ==
    IF i >= Len(bounds) THEN <<>>
    ELSE <<BucketDoc(Num(bounds[i]), InBucket(docs, f, bounds[i], bounds[i + 1]), f)>>
         \o NumericBuckets_WithEmpty(docs, f, bounds, i + 1)

\* $bucket: one document per bucket that holds a document, by ascending
\* lower boundary, the default bucket "Other" last.
RECURSIVE NumericBuckets(_, _, _, _)
NumericBuckets(docs, f, bounds, i) ==
    IF i >= Len(bounds) THEN <<>>
    ELSE LET members == InBucket(docs, f, bounds[i], bounds[i + 1])
         IN (IF members = <<>> THEN <<>>
             ELSE <<BucketDoc(Num(bounds[i]), members, f)>>)
            \o NumericBuckets(docs, f, bounds, i + 1)

Bucket(docs, f, bounds) ==
    LET other == InDefault(docs, f, bounds)
    IN NumericBuckets(docs, f, bounds, 1)
       \o (IF other = <<>> THEN <<>> ELSE <<BucketDoc(Str("Other"), other, f)>>)

generate_distribution_report(coll, fields, years) ==
    IF ~YearsParse(years) THEN {Raised(ValueError, 0)}
    ELSE {Returned([type |-> "distribution", fields |-> fields, years |-> years,
                    data |-> [f \in Range(fields) |->
                                Bucket(Match(coll, years), f, BoundariesOf(f))]],
                   Len(fields))}

\* ------------------------------------------------------------ chat
\* A variant of the sample with a limit no batch reaches.
SampleLimit_OutOfReach == 1000 * 1000

\* $limit of the sample the insights are drawn from.
SampleLimit == 1000

\* d.get(f, 0)
Get0(d, f) == IF f \in DOMAIN d THEN d[f] ELSE 0

\* sum(d.get(f, 0) for d in docs) / len(docs), docs not empty
PyAvg(docs, f) == Frac(Sum([i \in DOMAIN docs |-> Get0(docs[i], f)]), Len(docs))

\* sum(1 for d in docs if d.get(f, 0) > limit)
CountAbove(docs, f, limit) == Len(SelectSeq(docs, LAMBDA d : Get0(d, f) > limit))

\* The keys of revenue_by_year: `if year:` skips a missing or zero year.
RevenueYears(sample) ==
    {sample[i]["Year"] : i \in {j \in DOMAIN sample : Get0(sample[j], "Year") # 0}}

YearAvg(sample, y) ==
    PyAvg(SelectSeq(sample, LAMBDA d : Get0(d, "Year") = y), "Total_Revenue")

\* (last - first) / first * 100 for two fractions, first not 0
GrowthPct(first, last) ==
    LET n == (last[1] * first[2] - first[1] * last[2]) * 100
        d == first[1] * last[2]
    IN IF d < 0 THEN Frac(-n, -d) ELSE Frac(n, d)

ZeroDivisionError == "float division by zero"

\* A variant that leaves the trend sentence out when the earliest average is 0.
RevenueInsights_ZeroGuarded(sample) ==
    LET ys == RevenueYears(sample)
        first == YearAvg(sample, SetMin(ys))
        last == YearAvg(sample, SetMax(ys))
        average == [about |-> "average_revenue", value |-> PyAvg(sample, "Total_Revenue")]
    IN IF sample = <<>> THEN [raised |-> FALSE, insights |-> <<>>]
       ELSE IF Cardinality(ys) <= 1 \/ first[1] = 0
         THEN [raised |-> FALSE, insights |-> <<average>>]
       ELSE [raised |-> FALSE,
             insights |-> <<average,
                            [about |-> "revenue_trend", value |-> GrowthPct(first, last),
                             from |-> SetMin(ys), to |-> SetMax(ys)]>>]

\* A variant that measures the growth from the earliest year to the year
\* after it.
RevenueInsights_NextYear(sample) ==
    LET ys == RevenueYears(sample)
        first == YearAvg(sample, SetMin(ys))
        last == YearAvg(sample, SetMin(ys \ {SetMin(ys)}))
        average == [about |-> "average_revenue", value |-> PyAvg(sample, "Total_Revenue")]
    IN IF sample = <<>> THEN [raised |-> FALSE, insights |-> <<>>]
       ELSE IF Cardinality(ys) <= 1 THEN [raised |-> FALSE, insights |-> <<average>>]
       ELSE IF first[1] = 0 THEN [raised |-> TRUE, insights |-> <<average>>]
       ELSE [raised |-> FALSE,
             insights |-> <<average,
                            [about |-> "revenue_trend", value |-> GrowthPct(first, last),
                             from |-> SetMin(ys), to |-> SetMax(ys)]>>]

\* The revenue sentences, or the exception of the growth division.
RevenueInsights(sample) ==
    LET ys == RevenueYears(sample)
        first == YearAvg(sample, SetMin(ys))
        last == YearAvg(sample, SetMax(ys))
        average == [about |-> "average_revenue", value |-> PyAvg(sample, "Total_Revenue")]
    IN IF sample = <<>> THEN [raised |-> FALSE, insights |-> <<>>]
       ELSE IF Cardinality(ys) <= 1 THEN [raised |-> FALSE, insights |-> <<average>>]
       ELSE IF first[1] = 0 THEN [raised |-> TRUE, insights |-> <<average>>]
       ELSE [raised |-> FALSE,
             insights |-> <<average,
                            [about |-> "revenue_trend", value |-> GrowthPct(first, last),
                             from |-> SetMin(ys), to |-> SetMax(ys)]>>]

ProfitInsights(sample) ==
    IF sample = <<>> THEN <<>>
    ELSE << [about |-> "average_margin", value |-> PyAvg(sample, "Profit_Margin")],
            [about |-> "high_profit", count |-> CountAbove(sample, "Profit_Margin", 80),
             of |-> Len(sample)] >>

GrowthInsights(sample) ==
    IF sample = <<>> THEN <<>>
    ELSE << [about |-> "average_growth", value |-> PyAvg(sample, "Revenue_Growth")],
            [about |-> "positive_growth", count |-> CountAbove(sample, "Revenue_Growth", 0),
             of |-> Len(sample)] >>

\* A variant that appends the two general sentences the other way round.
GeneralInsights_FieldsFirst(sample, fields, years) ==
    << [about |-> "fields", fields |-> fields],
       [about |-> "records", count |-> Len(sample),
        from |-> IF years = <<>> THEN <<"all years">> ELSE years] >>

\* The two sentences every answer ends with.
GeneralInsights(sample, fields, years) ==
    << [about |-> "records", count |-> Len(sample),
        from |-> IF years = <<>> THEN <<"all years">> ELSE years],
       [about |-> "fields", fields |-> fields] >>

\* A variant of the test that does not look at the selected fields.
Wants_KeywordOnly(kw, field, question, fields) == InLowered(kw, question)

\* `"revenue" in question.lower() and "Total_Revenue" in fields`
Wants(kw, field, question, fields) ==
    InLowered(kw, question) /\ field \in Range(fields)

\* A variant of the envelope that echoes the years as the sentence shows them.
ChatResult_ShownYears(question, fields, years, insights, count) ==
    [type |-> "chat", question |-> question, fields |-> fields,
     years |-> IF years = <<>> THEN <<"all years">> ELSE years,
     insights |-> insights, sample_count |-> count]

\* The dictionary generate_chat_insights returns.
ChatResult(question, fields, years, insights, count) ==
    [type |-> "chat", question |-> question, fields |-> fields, years |-> years,
     insights |-> insights, sample_count |-> count]

generate_chat_insights(coll, fields, years, question) ==
    IF ~YearsParse(years) THEN {Raised(ValueError, 0)}
    ELSE LET sample == Limit(Project(Match(coll, years), {"Year"} \cup Range(fields)),
                             SampleLimit)
             wantsRevenue == Wants("revenue", "Total_Revenue", question, fields)
             wantsProfit == Wants("profit", "Profit_Margin", question, fields)
             wantsGrowth == Wants("growth", "Revenue_Growth", question, fields)
             revenue == RevenueInsights(sample)
         IN IF wantsRevenue /\ revenue.raised THEN {Raised(ZeroDivisionError, 1)}
            ELSE {Returned(
                    ChatResult(question, fields, years,
                               (IF wantsRevenue THEN revenue.insights ELSE <<>>)
                               \o (IF wantsProfit THEN ProfitInsights(sample) ELSE <<>>)
                               \o (IF wantsGrowth THEN GrowthInsights(sample) ELSE <<>>)
                               \o GeneralInsights(sample, fields, years),
                               Len(sample)), 1)}

\* ------------------------------------------------------------ the handler
Failure(error) == [success |-> FALSE, error |-> error]
Success(result) == [success |-> TRUE, result |-> result]

\* A variant of the check that is made for the known report types only.
NoFields_OfKnownType(req) ==
    req.fields = <<>> /\ req.report_type \in {"summary", "trend", "comparison",
                                              "distribution", "chat"}

\* `if not fields:`
NoFields(req) == req.fields = <<>>

\* A variant of the chain whose last branch takes every other type as well.
KnownReportTypes_ElseChat == ReportTypes

\* The if/elif chain over report_type; no branch for any other type.
KnownReportTypes == {"summary", "trend", "comparison", "distribution", "chat"}

Dispatch(coll, req) ==
    CASE req.report_type = "summary" ->
           generate_summary_report(coll, req.fields, req.years)
      [] req.report_type = "trend" ->
           generate_trend_report(coll, req.fields, req.years)
      [] req.report_type = "comparison" ->
           generate_comparison_report(coll, req.fields, req.years)
      [] req.report_type = "distribution" ->
           generate_distribution_report(coll, req.fields, req.years)
      [] OTHER ->
           generate_chat_insights(coll, req.fields, req.years, req.question)

\* str(e) of the exception collection.aggregate raises when the Record
\* Source fails.
SourceUnavailable == "record source unavailable"

\* A variant of the failing call that is made once more before giving up.
Unavailable_Retried(k) ==
    [raised |-> TRUE, error |-> SourceUnavailable, calls |-> k + 1, failed |-> k]

\* The k-th aggregate call of a report raises: the report ends there, with
\* nothing returned and no further call.
Unavailable(k) ==
    [raised |-> TRUE, error |-> SourceUnavailable, calls |-> k, failed |-> k]

\* Every aggregate call a report gets to may raise instead of returning.
Aggregating(outcomes) ==
    outcomes \cup {Unavailable(k) : k \in UNION {1..o.calls : o \in outcomes}}

\* `except Exception as e:` turns what a report raises into an error answer.
Answer(outcome) ==
    [response |-> IF outcome.raised THEN Failure(outcome.error)
                  ELSE Success(outcome.result),
     calls |-> outcome.calls,
     failed |-> outcome.failed]

\* A variant of the handler that looks at the report type before the fields.
generate_report_TypeFirst(coll, req) ==
    IF req.report_type \notin KnownReportTypes
      THEN {[response |-> Failure("Invalid report type"), calls |-> 0, failed |-> 0]}
    ELSE IF NoFields(req)
      THEN {[response |-> Failure("Please select at least one field"), calls |-> 0,
             failed |-> 0]}
    ELSE {Answer(o) : o \in Aggregating(Dispatch(coll, req))}

\* The answers generate_report may give to a request, each with the number
\* of aggregate calls made on the way.
generate_report(coll, req) ==
    IF NoFields(req)
      THEN {[response |-> Failure("Please select at least one field"), calls |-> 0,
             failed |-> 0]}
    ELSE IF req.report_type \notin KnownReportTypes
      THEN {[response |-> Failure("Invalid report type"), calls |-> 0, failed |-> 0]}
    ELSE {Answer(o) : o \in Aggregating(Dispatch(coll, req))}

\* ------------------------------------------------------------ the state machine
NoRequest == [pending |-> FALSE]
NoResponse == [pending |-> TRUE]
NoEarlier == [none |-> TRUE]

\* The bond monitoring database untouched: the report handler does not use it.
BondAtRest ==
    /\ bondRecords = <<>>
    /\ alerts = <<>>
    /\ clock = 0
    /\ returned = <<>>
    /\ log = <<>>

Init ==
    /\ collection \in Collections
    /\ request = NoRequest
    /\ response = NoResponse
    /\ queries = 0
    /\ failed = 0
    /\ pc = "idle"
    /\ earlier = NoEarlier
    /\ BondAtRest

\* A client posts a request to /api/generate_report.
Submit ==
    /\ pc = "idle"
    /\ request' \in RequestsFor(collection)
    /\ response' = NoResponse
    /\ queries' = 0
    /\ failed' = 0
    /\ pc' = "received"
    /\ UNCHANGED <<collection, earlier>>
    /\ UNCHANGED bond

\* A variant of the handler whose pipelines end in a stage that writes the
\* projected documents back to the collection.
GenerateReport_WritingBack ==
    /\ pc = "received"
    /\ \E out \in generate_report(collection, request) :
          /\ response' = out.response
          /\ queries' = out.calls
          /\ failed' = out.failed
          /\ collection' = IF out.calls = 0 THEN collection
                           ELSE Project(collection, {"Year"} \cup Range(request.fields))
    /\ pc' = "responded"
    /\ UNCHANGED <<request, earlier>>
    /\ UNCHANGED bond

\* The handler runs to its return.
GenerateReport ==
    /\ pc = "received"
    /\ \E out \in generate_report(collection, request) :
          /\ response' = out.response
          /\ queries' = out.calls
          /\ failed' = out.failed
    /\ pc' = "responded"
    /\ UNCHANGED <<collection, request, earlier>>
    /\ UNCHANGED bond

\* The client takes the answer; nothing of the request stays behind.
Deliver ==
    /\ pc = "responded"
    /\ request' = NoRequest
    /\ response' = NoResponse
    /\ queries' = 0
    /\ failed' = 0
    /\ pc' = "idle"
    /\ UNCHANGED <<collection, earlier>>
    /\ UNCHANGED bond

Next == Submit \/ GenerateReport \/ Deliver

Spec == Init /\ [][Next]_vars

\* ------------------------------------------------------------ repeated requests
\* The same handler serving one request after another over an unchanged
\* collection, with one of the requests answered before kept on record.
RunCollections == SeqsUpTo(DocPool, RunRecs)

RunRequests ==
    {r \in Requests : /\ r.question = <<>>
                      /\ r.years = <<>>
                      /\ r.fields \in {<<"Total_Revenue">>, <<"Year", "Total_Revenue">>}}

RunsInit ==
    /\ collection \in RunCollections
    /\ request = NoRequest
    /\ response = NoResponse
    /\ queries = 0
    /\ failed = 0
    /\ pc = "idle"
    /\ earlier = NoEarlier
    /\ BondAtRest

SubmitRun ==
    /\ pc = "idle"
    /\ request' \in RunRequests
    /\ response' = NoResponse
    /\ queries' = 0
    /\ failed' = 0
    /\ pc' = "received"
    /\ UNCHANGED <<collection, earlier>>
    /\ UNCHANGED bond

\* The client takes the answer; the observer may put the exchange on record.
DeliverRun ==
    /\ pc = "responded"
    /\ earlier' \in {earlier, [request |-> request, response |-> response,
                               failed |-> failed]}
    /\ request' = NoRequest
    /\ response' = NoResponse
    /\ queries' = 0
    /\ failed' = 0
    /\ pc' = "idle"
    /\ UNCHANGED collection
    /\ UNCHANGED bond

RunsNext == SubmitRun \/ GenerateReport \/ DeliverRun

SpecRuns == RunsInit /\ [][RunsNext]_vars

\* ------------------------------------------------------------ bond alerts
\* MongoDBBondAlert.check_alerts (src/mongodb_bond_alert.py), called again and
\* again as time passes.  Returns are in hundredths, time in half hours.

\* timedelta(hours=1)
Hour == 2

\* threshold=0.10 by default; the caller may pass another.
Thresholds == {10, 20}

\* A document of bond_records.
BondRecord(y, sp, baa, t) ==
    [year |-> y, sp500_return |-> sp, baa_bond_return |-> baa, us_treasury_return |-> t]

\* The contents of bond_records: one document per year (the import upserts by
\* year), among them returns equal to a threshold.
BondCollections ==
    { <<>>,
      <<BondRecord(2022, -18, -8, 2)>>,
      <<BondRecord(2020, 18, 8, 4), BondRecord(2024, 10, 10, 3)>>,
      <<BondRecord(2024, 10, 10, 3), BondRecord(2025, 30, 25, 5)>>,
      <<BondRecord(2023, 26, 20, 4), BondRecord(2022, -18, -8, 2),
        BondRecord(2021, 28, 6, 3)>> }

\* {'$or': [{'sp500_return': {'$lt': threshold}}, {'baa_bond_return': {'$lt': threshold}}]}
BelowThreshold(r, threshold) ==
    r.sp500_return < threshold \/ r.baa_bond_return < threshold

\* _get_alert_type: the triggers, in the order they are joined.
AlertType(r, threshold) ==
    (IF r.sp500_return < threshold THEN <<"S&P 500">> ELSE <<>>)
    \o (IF r.baa_bond_return < threshold THEN <<"BAA Bond">> ELSE <<>>)

\* A variant of the query that looks for alerts after the current time.
RecentAlert_NoWindow(store, y, now) ==
    \E i \in DOMAIN store : store[i].year = y /\ store[i].alert_time > now

\* alerts.find_one({'year': y, 'alert_time': {'$gt': current_time - timedelta(hours=1)}})
RecentAlert(store, y, now) ==
    \E i \in DOMAIN store : store[i].year = y /\ store[i].alert_time > now - Hour

\* The alert document of a record.
Alert(r, threshold, now) ==
    [year |-> r.year, sp500_return |-> r.sp500_return,
     baa_bond_return |-> r.baa_bond_return, us_treasury_return |-> r.us_treasury_return,
     threshold |-> threshold, alert_time |-> now,
     alert_type |-> AlertType(r, threshold), resolved |-> FALSE]

\* The loop over records_below_threshold from its i-th record on: the alert
\* store and alert_records at its end.
RECURSIVE CheckLoop(_, _, _, _, _, _)
CheckLoop(below, i, store, created, threshold, now) ==
    IF i > Len(below) THEN [store |-> store, created |-> created]
    ELSE IF RecentAlert(store, below[i].year, now)
      THEN CheckLoop(below, i + 1, store, created, threshold, now)
    ELSE CheckLoop(below, i + 1,
                   Append(store, Alert(below[i], threshold, now)),
                   Append(created, Alert(below[i], threshold, now)), threshold, now)

check_alerts(records, store, threshold, now) ==
    CheckLoop(SelectSeq(records, LAMBDA r : BelowThreshold(r, threshold)),
              1, store, <<>>, threshold, now)

BondInit ==
    /\ collection = <<>>
    /\ request = NoRequest
    /\ response = NoResponse
    /\ queries = 0
    /\ failed = 0
    /\ pc = "idle"
    /\ earlier = NoEarlier
    /\ bondRecords \in BondCollections
    /\ alerts = <<>>
    /\ clock = 0
    /\ returned = <<>>
    /\ log = <<>>

\* Half an hour passes.
Tick ==
    /\ clock < MaxTime
    /\ clock' = clock + 1
    /\ UNCHANGED <<bondRecords, alerts, returned, log>>
    /\ UNCHANGED app

\* One call of check_alerts, from datetime.now() to its return.
CheckAlerts ==
    /\ Len(log) < MaxCalls
    /\ \E threshold \in Thresholds :
          LET out == check_alerts(bondRecords, alerts, threshold, clock)
          IN /\ alerts' = out.store
             /\ returned' = out.created
             /\ log' = Append(log, [time |-> clock, threshold |-> threshold,
                                    before |-> alerts])
    /\ UNCHANGED <<bondRecords, clock>>
    /\ UNCHANGED app

BondNext == Tick \/ CheckAlerts

BondSpec == BondInit /\ [][BondNext]_vars

\* ------------------------------------------------------------ properties
\* The five report kinds and the field identifiers of the catalog, as the
\* specification lists them.
ValidKinds == {"summary", "trend", "comparison", "distribution", "chat"}
CatalogIds == {AvailableFields[i].value : i \in DOMAIN AvailableFields}
CurrencyIds == {AvailableFields[i].value :
                  i \in {j \in DOMAIN AvailableFields : AvailableFields[j].type = "currency"}}

Responded == pc = "responded"
Succeeded == Responded /\ response.success

\* C1: a request whose fields list is empty is answered with the
\* missing-fields error and no query is issued to the Record Source, whatever
\* its report kind, years and question are.
C1_EmptyFieldsRejected ==
    (Responded /\ request.fields = <<>>) =>
        /\ response = Failure("Please select at least one field")
        /\ queries = 0

\* An empty selection sent with an unknown kind, a year that is no number and
\* a question has been answered.
C1_Witness ==
    /\ Responded
    /\ request.fields = <<>>
    /\ request.report_type = "forecast"
    /\ request.years = <<"20x1">>
    /\ request.question # <<>>
    /\ collection # <<>>

\* C2: a request with fields whose kind is none of the five is answered with
\* the invalid-report-kind error and no aggregation is run.
C2_UnknownKindRejected ==
    (Responded /\ request.fields # <<>> /\ request.report_type \notin ValidKinds) =>
        /\ response = Failure("Invalid report type")
        /\ queries = 0

C2_Witness ==
    /\ Responded
    /\ request.report_type = "forecast"
    /\ request.fields = <<"Total_Revenue", "Profit_Margin">>
    /\ Len(collection) = MaxRecs

\* C3: a request naming a field identifier that is not in the Field Catalog
\* is rejected, whatever the report kind, instead of being aggregated under
\* a default field kind.
C3_UnknownFieldRejected ==
    (Responded /\ \E i \in DOMAIN request.fields : request.fields[i] \notin CatalogIds) =>
        ~response.success

\* C4: for non-empty fields and a valid kind, the result returned carries the
\* kind, the fields and the years of the request unchanged (same order,
\* empty years stay empty).
C4_RequestEchoed ==
    (Responded /\ request.fields # <<>> /\ request.report_type \in ValidKinds
       /\ response.success) =>
        /\ response.result.type = request.report_type
        /\ response.result.fields = request.fields
        /\ response.result.years = request.years

\* A chat result over all years for a selection that repeats a field.
C4_Witness ==
    /\ Succeeded
    /\ request.report_type = "chat"
    /\ request.years = <<>>
    /\ Len(request.fields) = 4
    /\ collection # <<>>

\* C5: in a summary result the statistics of a field hold `sum` exactly when
\* the field is a currency field; the statistics of any other field are
\* exactly min, max, avg and count (next to the group key _id of the $group).
C5_SumOnlyForCurrency ==
    (Succeeded /\ request.report_type = "summary") =>
        \A f \in DOMAIN response.result.data :
            LET stats == DOMAIN response.result.data[f] \ {"_id"}
            IN /\ "sum" \in stats <=> f \in CurrencyIds
               /\ f \in CurrencyIds => stats = {"min", "max", "avg", "sum", "count"}
               /\ f \notin CurrencyIds => stats = {"min", "max", "avg", "count"}

\* A summary of a currency field and a percentage field, both with statistics.
C5_Witness ==
    /\ Succeeded
    /\ request.report_type = "summary"
    /\ request.fields = <<"Total_Revenue", "Profit_Margin">>
    /\ DOMAIN response.result.data = {"Total_Revenue", "Profit_Margin"}

\* The records that pass the year filter of the request, by position, and
\* their number.
FilteredIdx ==
    {i \in DOMAIN collection :
        \/ request.years = <<>>
        \/ collection[i]["Year"] \in {IntOfText[request.years[k]] : k \in DOMAIN request.years}}
FilteredCount == Cardinality(FilteredIdx)
FilteredYears == {collection[i]["Year"] : i \in FilteredIdx}

\* The sum of field f over the records at the positions I.
RECURSIVE SumOver(_, _)
SumOver(I, f) ==
    IF I = {} THEN 0
    ELSE LET i == CHOOSE i \in I : TRUE IN collection[i][f] + SumOver(I \ {i}, f)

\* The fraction q is the quotient n/d.
IsQuotient(q, n, d) == Len(q) = 2 /\ q[2] > 0 /\ q[1] * d = n * q[2]

\* The year filter leaves no record.
EmptyBatch == YearsParse(request.years) /\ FilteredIdx = {}

BucketTotal(buckets) == Sum([i \in DOMAIN buckets |-> buckets[i].count[1]])

\* C7: for every report kind, with years given exactly the records whose
\* year is among them contribute to the result, and with no years given
\* every record does.
C7_YearFilter ==
    Succeeded =>
        LET data == response.result.data
            kind == request.report_type
        IN /\ kind = "summary" =>
                /\ DOMAIN data = IF FilteredIdx = {} THEN {} ELSE Range(request.fields)
                /\ \A f \in DOMAIN data : data[f]["count"] = Num(FilteredCount)
                /\ \A f \in DOMAIN data \cap CurrencyIds :
                      data[f]["sum"] = Num(SumOver(FilteredIdx, f))
           /\ kind = "trend" =>
                {data[i]["_id"] : i \in DOMAIN data} = {Num(y) : y \in FilteredYears}
           /\ kind = "comparison" =>
                \A side \in {data.top_performers, data.bottom_performers} :
                    /\ Len(side) = IF FilteredCount < TopLimit THEN FilteredCount ELSE TopLimit
                    /\ FilteredCount <= TopLimit =>
                          \A y \in FilteredYears :
                              Cardinality({i \in DOMAIN side : side[i]["Year"] = y})
                                = Cardinality({i \in FilteredIdx : collection[i]["Year"] = y})
           /\ kind = "distribution" =>
                \A f \in DOMAIN data : BucketTotal(data[f]) = FilteredCount
           /\ kind = "chat" =>
                response.result.sample_count
                  = IF FilteredCount < SampleLimit THEN FilteredCount ELSE SampleLimit

\* A distribution over two of the three years of a full collection.
C7_Witness ==
    /\ Succeeded
    /\ request.report_type = "distribution"
    /\ request.years = <<"2021", "2019">>
    /\ {collection[i]["Year"] : i \in DOMAIN collection} = {2019, 2020, 2021}
    /\ FilteredCount = 2

\* C8: the trend data holds exactly one group per distinct year of the
\* filtered records, in strictly ascending order of year, whatever the order
\* of the records.
C8_TrendOneGroupPerYearAscending ==
    (Succeeded /\ request.report_type = "trend") =>
        LET data == response.result.data
        IN /\ Len(data) = Cardinality(FilteredYears)
           /\ {data[i]["_id"] : i \in DOMAIN data} = {Num(y) : y \in FilteredYears}
           /\ \A i, j \in DOMAIN data : i < j => data[i]["_id"][1] < data[j]["_id"][1]

\* A trend over records stored out of year order, one year twice.
C8_Witness ==
    /\ Succeeded
    /\ request.report_type = "trend"
    /\ request.years = <<>>
    /\ Len(collection) = 3
    /\ collection[1]["Year"] = 2021
    /\ collection[2]["Year"] = 2019
    /\ collection[3]["Year"] = 2021
    /\ Len(response.result.data) = 2

\* The filtered records of year y, by position.
FilteredOfYear(y) == {i \in FilteredIdx : collection[i]["Year"] = y}

\* C9: in a trend, the value of a selected field in the group of a year is
\* the arithmetic mean of the field over all the filtered records of that
\* year, each record counting once however often its value occurs.
C9_TrendGroupMean ==
    (Succeeded /\ request.report_type = "trend") =>
        LET data == response.result.data
        IN \A i \in DOMAIN data :
             \A f \in (DOMAIN data[i] \cap CatalogIds) :
                LET members == FilteredOfYear(data[i]["_id"][1])
                IN /\ members # {}
                   /\ IsQuotient(data[i][f], SumOver(members, f), Cardinality(members))

\* Two records of 2020 with revenues 10 and 20 have given the average 15.
C9_Witness ==
    /\ Succeeded
    /\ request.report_type = "trend"
    /\ request.fields = <<"Total_Revenue">>
    /\ Len(collection) = 2
    /\ collection[1]["Year"] = 2020 /\ collection[1]["Total_Revenue"] = 10
    /\ collection[2]["Year"] = 2020 /\ collection[2]["Total_Revenue"] = 20
    /\ Len(response.result.data) = 1
    /\ response.result.data[1]["Total_Revenue"] = Num(15)

\* The batch and the request of the scenario: revenue 100 in 2020 and 200 in
\* 2021, a trend of Total_Revenue over all years.
TrendScenario ==
    /\ request.report_type = "trend"
    /\ request.fields = <<"Total_Revenue">>
    /\ request.years = <<>>
    /\ Len(collection) = 2
    /\ collection[1]["Year"] = 2020 /\ collection[1]["Total_Revenue"] = 100
    /\ collection[2]["Year"] = 2021 /\ collection[2]["Total_Revenue"] = 200

\* A trend group: the year under the key `yearKey`, one average per selected
\* field other than Year, and nothing else; and the data of the scenario.
TrendGroupsKeyed(yearKey) ==
    (Succeeded /\ request.report_type = "trend") =>
        LET data == response.result.data
        IN /\ \A i \in DOMAIN data :
                /\ DOMAIN data[i] = {yearKey} \cup (Range(request.fields) \ {"Year"})
                /\ data[i][yearKey][1] \in FilteredYears
                /\ data[i][yearKey][2] = 1
           /\ TrendScenario =>
                data = << [k \in {yearKey, "Total_Revenue"} |->
                             IF k = yearKey THEN Num(2020) ELSE Num(100)],
                          [k \in {yearKey, "Total_Revenue"} |->
                             IF k = yearKey THEN Num(2021) ELSE Num(200)] >>

\* C10 as stated: each trend group is a mapping with the key `year` holding
\* the group's year plus one averaged value per selected field other than
\* the year field, and nothing else; the scenario gives
\* [{year: 2020, Total_Revenue: 100}, {year: 2021, Total_Revenue: 200}].
C10_GroupsKeyedByYear == TrendGroupsKeyed("year")

\* C10 amended: the same with the group's year held under the key `_id`;
\* the scenario gives [{_id: 2020, Total_Revenue: 100}, {_id: 2021, Total_Revenue: 200}].
C10_GroupsKeyedById == TrendGroupsKeyed("_id")

\* The scenario has been answered.
C10_Witness ==
    /\ Succeeded
    /\ TrendScenario
    /\ Len(response.result.data) = 2

\* ------------------------------------------------------------ comparison properties
ComparisonAnswered == Succeeded /\ request.report_type = "comparison"

\* The two lists of a comparison, each document reduced to its year and its
\* value of the ranking field f1.
Ranking(data, f1) ==
    [top |-> Project(data.top_performers, {"Year", f1}),
     bottom |-> Project(data.bottom_performers, {"Year", f1})]

\* The rankings a comparison of the selection fs may return over coll.
RankingsOf(coll, fs, years) ==
    {Ranking(o.result.data, fs[1]) : o \in generate_comparison_report(coll, fs, years)}

\* Selections that share the first field f1 and differ after it.
AltSelections(f1) ==
    { <<f1>>, <<f1, "Total_Revenue">>, <<f1, "Profit_Margin", "Total_Revenue">> }

\* The collection with every value changed but the year and the field f1.
AlteredOthers(coll, f1) ==
    [i \in DOMAIN coll |->
        [k \in DOMAIN coll[i] |->
            IF k \in {"Year", f1} THEN coll[i][k] ELSE 7 - coll[i][k]]]

\* The filtered records in storage order, as the comparison projects them.
FilteredProjected ==
    LET kept == SelectSeq([i \in DOMAIN collection |-> i], LAMBDA i : i \in FilteredIdx)
    IN [n \in DOMAIN kept |->
          [k \in DOMAIN collection[kept[n]] \cap ({"Year"} \cup Range(request.fields)) |->
              collection[kept[n]][k]]]

\* The value a document is ranked by: a missing field ranks below every number.
RankOf(d, f) == IF f \in DOMAIN d THEN d[f] ELSE -1000000

\* The stable sort: of the records that may come first, the first stored.
RECURSIVE StableSort(_, _, _)
StableSort(docs, f, dir) ==
    IF docs = <<>> THEN <<>>
    ELSE LET best == IF dir = 1 THEN SetMin({RankOf(docs[i], f) : i \in DOMAIN docs})
                     ELSE SetMax({RankOf(docs[i], f) : i \in DOMAIN docs})
             i == SetMin({j \in DOMAIN docs : RankOf(docs[j], f) = best})
         IN <<docs[i]>> \o StableSort(SubSeq(docs, 1, i - 1)
                                      \o SubSeq(docs, i + 1, Len(docs)), f, dir)

FirstTen(docs) == SubSeq(docs, 1, IF Len(docs) < 10 THEN Len(docs) ELSE 10)

\* The direction the specification gives the top performers of a field.
SpecDirection(f) == IF f \in CurrencyIds THEN -1 ELSE 1

\* Both lists of the answer keep tied records in storage order.
StorageOrderAnswer ==
    LET f1 == request.fields[1]
    IN /\ response.result.data.top_performers
            = FirstTen(StableSort(FilteredProjected, f1, SpecDirection(f1)))
       /\ response.result.data.bottom_performers
            = FirstTen(StableSort(FilteredProjected, f1, -SpecDirection(f1)))

OrderedBy(list, f, dir) ==
    \A i, j \in DOMAIN list :
        i < j => IF dir = 1 THEN list[i][f] <= list[j][f] ELSE list[i][f] >= list[j][f]

\* C12: when the first selected field is a currency field the top performers
\* are in descending and the bottom performers in ascending order of it; when
\* it is a field of another kind the top performers are in ascending and the
\* bottom performers in descending order.
C12_DirectionByKind ==
    (ComparisonAnswered /\ request.fields[1] \in CatalogIds) =>
        LET f1 == request.fields[1]
            data == response.result.data
        IN IF f1 \in CurrencyIds
           THEN OrderedBy(data.top_performers, f1, -1) /\ OrderedBy(data.bottom_performers, f1, 1)
           ELSE OrderedBy(data.top_performers, f1, 1) /\ OrderedBy(data.bottom_performers, f1, -1)

\* A comparison by a percentage field over three records with three margins.
C12_Witness ==
    /\ ComparisonAnswered
    /\ request.fields = <<"Profit_Margin">>
    /\ Len(response.result.data.top_performers) = 3
    /\ response.result.data.top_performers[1]["Profit_Margin"]
         < response.result.data.top_performers[3]["Profit_Margin"]
    /\ response.result.data.bottom_performers[1]["Profit_Margin"]
         > response.result.data.bottom_performers[3]["Profit_Margin"]

\* C13: the top and the bottom performers each hold at most 10 records, and
\* exactly min(10, number of filtered records).
C13_TenAtMost ==
    ComparisonAnswered =>
        \A side \in {response.result.data.top_performers,
                     response.result.data.bottom_performers} :
            /\ Len(side) <= 10
            /\ Len(side) = IF FilteredCount < 10 THEN FilteredCount ELSE 10

\* A comparison over more than ten filtered records.
C13_Witness ==
    /\ ComparisonAnswered
    /\ FilteredCount > 10
    /\ Len(response.result.data.top_performers) = 10
    /\ Len(response.result.data.bottom_performers) = 10

\* C14: in a comparison, records that tie on the ranking field keep their
\* storage order in the top and in the bottom performers (the sort is stable),
\* also when the tie straddles the cut after ten records.
C14_TiesKeepInputOrder ==
    (ComparisonAnswered /\ request.fields[1] \in CatalogIds) => StorageOrderAnswer


\* ------------------------------------------------------------ distribution properties
DistributionAnswered == Succeeded /\ request.report_type = "distribution"

\* The kind the catalog gives a field, and the boundaries the specification
\* gives each kind (currency in millions, percentages in hundredths).
KindOf(f) ==
    LET i == CHOOSE i \in DOMAIN AvailableFields : AvailableFields[i].value = f
    IN AvailableFields[i].type

KindBoundaries(f) ==
    CASE KindOf(f) = "currency" -> <<0, 10, 100, 1000, 5000>>
      [] KindOf(f) = "percentage" -> <<-100, -20, 0, 10, 20, 50, 100>>
      [] OTHER -> <<0, 1000, 5000, 10000, 50000>>

\* The filtered records whose value of f is in [lo, hi), and those whose value
\* is outside the boundaries b.
Within(f, lo, hi) == {k \in FilteredIdx : lo <= collection[k][f] /\ collection[k][f] < hi}
Outside(f, b) ==
    {k \in FilteredIdx : collection[k][f] < b[1] \/ collection[k][f] >= b[Len(b)]}

\* The buckets of the list whose _id is id.
BucketsWithId(buckets, id) == {j \in DOMAIN buckets : buckets[j]["_id"] = id}

\* C15: in a distribution each selected field is bucketed by the boundaries of
\* its kind, and a record whose value v has b[i] <= v < b[i+1] is counted in
\* the bucket that starts at b[i] and in no other: the bucket of b[i] counts
\* exactly those records (and is absent when there is none), so a value equal
\* to a boundary is in the bucket that starts there.
C15_BucketOfValue ==
    DistributionAnswered =>
        \A f \in Range(request.fields) \cap CatalogIds :
            LET b == KindBoundaries(f)
                buckets == response.result.data[f]
            IN \A i \in 1..(Len(b) - 1) :
                  LET n == Cardinality(Within(f, b[i], b[i + 1]))
                      js == BucketsWithId(buckets, Num(b[i]))
                  IN IF n = 0 THEN js = {}
                     ELSE /\ Cardinality(js) = 1
                          /\ \A j \in js : buckets[j]["count"] = Num(n)

\* A distribution of Market_Cap over a record whose value is the boundary 1e7
\* (10 millions): it is counted in the bucket that starts at 1e7.
C15_Witness ==
    /\ DistributionAnswered
    /\ "Market_Cap" \in Range(request.fields)
    /\ \E k \in FilteredIdx : collection[k]["Market_Cap"] = 10
    /\ \E j \in DOMAIN response.result.data["Market_Cap"] :
          /\ response.result.data["Market_Cap"][j]["_id"] = Num(10)
          /\ response.result.data["Market_Cap"][j]["count"][1] >= 1

\* C16: in a distribution a record whose value is below the first or at or
\* above the last boundary of the field's kind is counted in the bucket
\* "Other" and in no numeric bucket: "Other" counts exactly those records (and
\* is absent when there is none) and the numeric buckets count the others.
C16_OtherBucket ==
    DistributionAnswered =>
        \A f \in Range(request.fields) \cap CatalogIds :
            LET b == KindBoundaries(f)
                buckets == response.result.data[f]
                n == Cardinality(Outside(f, b))
                js == BucketsWithId(buckets, Str("Other"))
            IN /\ IF n = 0 THEN js = {}
                  ELSE /\ Cardinality(js) = 1
                       /\ \A j \in js : buckets[j]["count"] = Num(n)
               /\ Sum([j \in DOMAIN buckets |->
                         IF j \in js THEN 0 ELSE buckets[j]["count"][1]])
                    = FilteredCount - n

\* A distribution of Market_Cap over records whose values are the last
\* boundary 5e9, above it and negative: "Other" counts the three of them.
C16_Witness ==
    /\ DistributionAnswered
    /\ "Market_Cap" \in Range(request.fields)
    /\ {collection[k]["Market_Cap"] : k \in FilteredIdx} = {5000, 6000, -3}
    /\ \E j \in DOMAIN response.result.data["Market_Cap"] :
          /\ response.result.data["Market_Cap"][j]["_id"] = Str("Other")
          /\ response.result.data["Market_Cap"][j]["count"] = Num(3)

\* A distribution of Profit_Margin over a record whose margin is exactly 1:
\* it is counted in "Other".
C16_WitnessPercentage ==
    /\ DistributionAnswered
    /\ request.fields = <<"Profit_Margin">>
    /\ {collection[k]["Profit_Margin"] : k \in FilteredIdx} = {100}
    /\ response.result.data["Profit_Margin"][1]["_id"] = Str("Other")


\* ------------------------------------------------------------ chat properties
ChatAnswered == Succeeded /\ request.report_type = "chat"

\* The keywords, the field each one is about and the sentences specific to it.
Keywords == {"revenue", "profit", "growth"}

FieldOf(kw) ==
    CASE kw = "revenue" -> "Total_Revenue"
      [] kw = "profit" -> "Profit_Margin"
      [] OTHER -> "Revenue_Growth"

SentencesOf(kw) ==
    CASE kw = "revenue" -> {"average_revenue", "revenue_trend"}
      [] kw = "profit" -> {"average_margin", "high_profit"}
      [] OTHER -> {"average_growth", "positive_growth"}

\* The keywords each question contains when case is ignored.
KeywordsOf(question) ==
    CASE question = <<"Revenue", "and", "PROFIT">> -> {"revenue", "profit"}
      [] question = <<"GrowthRate", "of", "revenues">> -> {"growth", "revenue"}
      [] OTHER -> {}

\* The keywords of the request: in the question, and their field selected.
Asked == {kw \in KeywordsOf(request.question) : FieldOf(kw) \in Range(request.fields)}

\* The positions of the sentences of the answer that are specific to kw.
Specific(kw) ==
    {i \in DOMAIN response.result.insights :
        response.result.insights[i].about \in SentencesOf(kw)}

\* C17: a chat answer holds sentences specific to a keyword only if the
\* question contains the keyword, case ignored, and the keyword's field is
\* selected; when that is so for no keyword the insights are the two general
\* sentences alone.
C17_KeywordNeedsField ==
    ChatAnswered =>
        /\ \A kw \in Keywords : Specific(kw) # {} => kw \in Asked
        /\ Asked = {} => Len(response.result.insights) = 2

\* The question asks for revenue and profit over records, and only
\* Profit_Margin is selected: profit sentences and no revenue sentence.
C17_Witness ==
    /\ ChatAnswered
    /\ request.question = <<"Revenue", "and", "PROFIT">>
    /\ request.fields = <<"Profit_Margin">>
    /\ FilteredCount > 0
    /\ Specific("revenue") = {}
    /\ Specific("profit") # {}

\* C18 as stated: for each keyword in the question whose field is selected
\* the insights hold at least one sentence specific to it, for every record
\* batch, an empty one included.
C18_SentenceForEveryBatch ==
    ChatAnswered => \A kw \in Asked : Specific(kw) # {}

\* C18, amended: for each keyword in the question whose field is selected the
\* insights hold at least one sentence specific to it when at least one record
\* passes the year filter, and none when no record does.
C18_SentenceUnlessEmpty ==
    ChatAnswered =>
        \A kw \in Asked : IF FilteredCount > 0 THEN Specific(kw) # {} ELSE Specific(kw) = {}

\* Growth and revenue asked in mixed case with both fields selected, over
\* records: sentences for both.
C18_Witness ==
    /\ ChatAnswered
    /\ Asked = {"growth", "revenue"}
    /\ FilteredCount > 0
    /\ Specific("growth") # {}
    /\ Specific("revenue") # {}

\* The place of a sentence in the fixed order of the keywords.
OrderOf(about) ==
    CASE about \in SentencesOf("revenue") -> 1
      [] about \in SentencesOf("profit") -> 2
      [] about \in SentencesOf("growth") -> 3
      [] OTHER -> 4

\* C19: the insights of every successful chat answer end with the statement
\* of the record count and the years covered followed by the statement of the
\* selected fields, so they are at least two, and the sentences specific to a
\* keyword come before them in the order revenue, profit, growth.
C19_GeneralSentencesLast ==
    ChatAnswered =>
        LET insights == response.result.insights
            n == Len(insights)
        IN /\ n >= 2
           /\ insights[n - 1].about = "records"
           /\ insights[n - 1].from
                = (IF request.years = <<>> THEN <<"all years">> ELSE request.years)
           /\ insights[n].about = "fields"
           /\ insights[n].fields = request.fields
           /\ \A i \in 1..(n - 2) : OrderOf(insights[i].about) < 4
           /\ \A i, j \in 1..(n - 2) :
                 i < j => OrderOf(insights[i].about) <= OrderOf(insights[j].about)

\* Revenue and profit sentences, in that order, before the two general ones.
C19_Witness ==
    /\ ChatAnswered
    /\ Len(response.result.insights) >= 5
    /\ Specific("revenue") # {}
    /\ Specific("profit") # {}
    /\ \A i \in Specific("revenue") : \A j \in Specific("profit") : i < j

\* C20: chat insights are computed over at most 1000 of the filtered records:
\* sample_count is the number of records the sentences are drawn from, is
\* never above 1000 and is the number of filtered records when that is at
\* most 1000.
C20_SampleCount ==
    ChatAnswered =>
        LET insights == response.result.insights
            count == response.result.sample_count
        IN /\ count <= 1000
           /\ FilteredCount <= 1000 => count = FilteredCount
           /\ FilteredCount > 1000 => count = 1000
           /\ \A i \in DOMAIN insights :
                 /\ insights[i].about = "records" => insights[i].count = count
                 /\ insights[i].about \in {"high_profit", "positive_growth"} =>
                       insights[i].of = count

\* More than 1000 records pass the filter and the profit sentences are drawn
\* from 1000 of them.
C20_Witness ==
    /\ ChatAnswered
    /\ FilteredCount > 1000
    /\ response.result.sample_count = 1000
    /\ \E i \in Specific("profit") :
          /\ response.result.insights[i].about = "high_profit"
          /\ response.result.insights[i].of = 1000


\* ------------------------------------------------------------ further properties
\* C21: the engine keeps no state between calls: over an unchanged record
\* batch a request gets the same result whatever requests were served before
\* it, and the same request served again gets the same result again.
C21_SameAnswerAgain ==
    (/\ Responded /\ failed = 0
     /\ earlier # NoEarlier /\ earlier.request = request /\ earlier.failed = 0) =>
        response = earlier.response


\* C22: when the Record Source fails during a query of a report, the caller
\* gets an error and no payload, not even the statistics of the fields
\* computed before, and the Record Source is not called again for the
\* request: the failed call is the last one.
C22_SourceFailure ==
    (Responded /\ failed > 0) =>
        /\ response = Failure(SourceUnavailable)
        /\ DOMAIN response = {"success", "error"}
        /\ queries = failed

\* The second query of a summary of two fields over records failed, after
\* the statistics of the first field had been computed.
C22_Witness ==
    /\ Responded
    /\ request.report_type = "summary"
    /\ request.fields = <<"Total_Revenue", "Profit_Margin">>
    /\ FilteredCount > 0
    /\ failed = 2
    /\ queries = 2
    /\ ~response.success


\* The positions of the records of the chat sample: the first 1000 that pass
\* the year filter.
SamplePositions ==
    LET idx == FilteredIdx
        kept == SelectSeq([i \in DOMAIN collection |-> i], LAMBDA i : i \in idx)
    IN SubSeq(kept, 1, IF Len(kept) < 1000 THEN Len(kept) ELSE 1000)

\* The Total_Revenue values of the sample's records of year y.
RevenuesOf(positions, y) ==
    LET ofYear == SelectSeq(positions, LAMBDA i : collection[i]["Year"] = y)
    IN [n \in DOMAIN ofYear |-> collection[ofYear[n]]["Total_Revenue"]]

\* The fraction q is 100 * (A2 - A1) / A1 for the averages A1 and A2 of the
\* sequences r1 and r2.
IsGrowth(q, r1, r2) ==
    /\ Len(q) = 2 /\ q[2] > 0
    /\ q[1] * (Sum(r1) * Len(r2))
         = q[2] * 100 * (Sum(r2) * Len(r1) - Sum(r1) * Len(r2))

TrendSentences ==
    {i \in DOMAIN response.result.insights :
        response.result.insights[i].about = "revenue_trend"}

C24_ReadOnly == [][collection' = collection]_vars

\* A request answered with a result over records, after an earlier request
\* over the same records was answered with an error.
C24_Witness ==
    /\ Succeeded
    /\ collection # <<>>
    /\ earlier # NoEarlier
    /\ ~earlier.response.success

\* The sample of the request holds at least two years and the Total_Revenue
\* of its records of the earliest year adds up to 0.
EarliestAverageZero ==
    LET positions == SamplePositions
        ys == {collection[positions[n]]["Year"] : n \in DOMAIN positions}
    IN /\ Cardinality(ys) >= 2
       /\ Sum(RevenuesOf(positions, SetMin(ys))) = 0

\* C25: a chat request about revenue (keyword in the question, Total_Revenue
\* selected) over a sample of at least two years whose earliest year has an
\* average Total_Revenue of 0 returns no insights: the caller gets an error
\* result and none of the sentences, the division by zero being the error
\* unless the Record Source failed before.
C25_GrowthDivisionAborts ==
    (/\ Responded
     /\ request.report_type = "chat"
     /\ YearsParse(request.years)
     /\ "revenue" \in Asked
     /\ EarliestAverageZero) =>
        /\ ~response.success
        /\ DOMAIN response = {"success", "error"}
        /\ failed = 0 => (response.error = ZeroDivisionError /\ queries = 1)

\* Revenue asked over records of 2019, whose revenue is 0, and of later years.
C25_Witness ==
    /\ Responded
    /\ request.report_type = "chat"
    /\ YearsParse(request.years)
    /\ "revenue" \in Asked
    /\ EarliestAverageZero
    /\ failed = 0
    /\ response = Failure(ZeroDivisionError)

\* C26: the field selection is checked before the report kind: a request
\* with no fields and an unknown kind is answered with the missing-fields
\* error, never with the invalid-kind error.
C26_FieldsCheckedFirst ==
    (Responded /\ request.fields = <<>> /\ request.report_type \notin ValidKinds) =>
        /\ ~response.success
        /\ response.error = "Please select at least one field"
        /\ response.error # "Invalid report type"

\* A request with nothing in it but an unknown kind has been answered.
C26_Witness ==
    /\ Responded
    /\ request.fields = <<>>
    /\ request.report_type = "forecast"
    /\ request.years = <<>>
    /\ request.question = <<>>
    /\ response.error = "Please select at least one field"


\* C27: in a distribution, for each selected field every filtered record is
\* counted in exactly one bucket: the counts of the returned buckets, "Other"
\* included, add up to the number of filtered records, no two buckets have
\* the same _id, and every returned bucket counts at least one record.
C27_BucketsPartition ==
    DistributionAnswered =>
        \A f \in Range(request.fields) :
            LET buckets == response.result.data[f]
            IN /\ BucketTotal(buckets) = FilteredCount
               /\ \A i \in DOMAIN buckets : buckets[i]["count"][1] >= 1
               /\ \A i, j \in DOMAIN buckets :
                     i # j => buckets[i]["_id"] # buckets[j]["_id"]

\* A distribution of Market_Cap over three records in two numeric buckets and
\* in "Other".
C27_Witness ==
    /\ DistributionAnswered
    /\ "Market_Cap" \in Range(request.fields)
    /\ FilteredCount = 3
    /\ Len(response.result.data["Market_Cap"]) = 3

\* The two lists hold the same records, each as often.
SameRecords(s, t) ==
    /\ Len(s) = Len(t)
    /\ \A d \in Range(s) \cup Range(t) :
          Cardinality({i \in DOMAIN s : s[i] = d}) = Cardinality({i \in DOMAIN t : t[i] = d})

Reverse(s) == [i \in DOMAIN s |-> s[Len(s) + 1 - i]]

\* No two filtered records have the same value of field f.
DistinctRanks(f) ==
    \A i, j \in FilteredIdx : i # j => collection[i][f] # collection[j][f]

\* C28: in a comparison, when at most 10 records pass the year filter the top
\* and the bottom performers hold the same records, all of them; and when the
\* records have pairwise distinct values of the ranking field, the bottom
\* performers are the top performers reversed.
C28_SameRecordsReversed ==
    (ComparisonAnswered /\ FilteredCount <= 10) =>
        LET top == response.result.data.top_performers
            bottom == response.result.data.bottom_performers
            f1 == request.fields[1]
        IN /\ SameRecords(top, FilteredProjected)
           /\ SameRecords(bottom, FilteredProjected)
           /\ (f1 \in CatalogIds /\ DistinctRanks(f1)) => bottom = Reverse(top)

\* A comparison over three records with three values of the ranking field.
C28_Witness ==
    /\ ComparisonAnswered
    /\ FilteredCount = 3
    /\ request.fields[1] = "Total_Revenue"
    /\ DistinctRanks("Total_Revenue")
    /\ response.result.data.bottom_performers
         = Reverse(response.result.data.top_performers)
    /\ response.result.data.bottom_performers # response.result.data.top_performers

SummaryAnswered == Succeeded /\ request.report_type = "summary"

\* C29: in a summary over a non-empty filtered batch every selected field has
\* an entry whose count is the number of filtered records, the same for all
\* fields, and whose min <= avg <= max; over a single record min, max and avg
\* are that record's value.
C29_SummaryEntries ==
    (SummaryAnswered /\ FilteredCount > 0) =>
        \A f \in Range(request.fields) :
            /\ f \in DOMAIN response.result.data
            /\ response.result.data[f]["count"] = Num(FilteredCount)
            /\ f \in CatalogIds =>
                  LET entry == response.result.data[f]
                  IN /\ FracLeq(entry["min"], entry["avg"])
                     /\ FracLeq(entry["avg"], entry["max"])
                     /\ FilteredCount = 1 =>
                           \A i \in FilteredIdx :
                              /\ entry["min"] = Num(collection[i][f])
                              /\ entry["max"] = Num(collection[i][f])
                              /\ entry["avg"] = Num(collection[i][f])

\* A summary of two fields over three records whose revenues differ: the
\* average lies strictly between the least and the greatest.
C29_Witness ==
    /\ SummaryAnswered
    /\ request.fields = <<"Total_Revenue", "Profit_Margin">>
    /\ FilteredCount = 3
    /\ response.result.data["Total_Revenue"]["min"]
         # response.result.data["Total_Revenue"]["avg"]
    /\ response.result.data["Total_Revenue"]["avg"]
         # response.result.data["Total_Revenue"]["max"]


\* ------------------------------------------------------------ bond alert properties
\* The last check_alerts call, the call before it, and the alert store the
\* last call found.
LastCall == log[Len(log)]
CallBefore == log[Len(log) - 1]

\* Every alert the last call created is for a record that is strictly below
\* the call's threshold in one of the two returns and whose year had no alert
\* dated within the hour before the call.
CreatedOnlyWhenDue ==
    Len(log) >= 1 =>
        \A n \in DOMAIN returned :
            /\ \E k \in DOMAIN bondRecords :
                  /\ bondRecords[k].year = returned[n].year
                  /\ \/ bondRecords[k].sp500_return < LastCall.threshold
                     \/ bondRecords[k].baa_bond_return < LastCall.threshold
            /\ ~ \E a \in Range(LastCall.before) :
                    /\ a.year = returned[n].year
                    /\ a.alert_time > LastCall.time - 2

\* No year has two alerts less than an hour apart.
NoTwoWithinAnHour ==
    \A i, j \in DOMAIN alerts :
        (i < j /\ alerts[i].year = alerts[j].year) =>
            alerts[j].alert_time - alerts[i].alert_time >= 2

\* The last call is the second one and came less than an hour (two half
\* hours) after the first; the records never change.
SecondSoonAfterFirst ==
    /\ Len(log) = 2
    /\ LastCall.time - CallBefore.time < 2

\* The last call came less than an hour after the call before it, with the
\* same threshold.
SoonAfterCallBefore ==
    /\ Len(log) >= 2
    /\ LastCall.time - CallBefore.time < 2
    /\ LastCall.threshold = CallBefore.threshold

\* The call before the last found no alert younger than an hour for any
\* record below its threshold: it alerted for all of them.
CallBeforeAlertedAll ==
    \A k \in DOMAIN bondRecords :
        (\/ bondRecords[k].sp500_return < CallBefore.threshold
         \/ bondRecords[k].baa_bond_return < CallBefore.threshold) =>
            ~ \E a \in Range(CallBefore.before) :
                 /\ a.year = bondRecords[k].year
                 /\ a.alert_time > CallBefore.time - 2

\* C30 as stated: check_alerts creates an alert for a record only if it is
\* strictly below the threshold and its year has no alert within the
\* preceding hour; hence a second call less than an hour after the first,
\* with unchanged records, creates and returns no alerts, and no year ever
\* has two alerts less than an hour apart.
C30_SecondCallSilent ==
    /\ CreatedOnlyWhenDue
    /\ NoTwoWithinAnHour
    /\ SecondSoonAfterFirst => returned = <<>>

\* C30, amended: check_alerts creates an alert for a record only if it is
\* strictly below the threshold and its year has no alert within the
\* preceding hour; hence no year ever has two alerts less than an hour apart,
\* and a call creates and returns no alerts when it comes less than an hour
\* after a call with the same threshold that itself found no alert younger
\* than an hour for any record below the threshold (the first call is such
\* a call: it finds no alerts at all).
C30_AlertsDeduplicated ==
    /\ CreatedOnlyWhenDue
    /\ NoTwoWithinAnHour
    /\ (SoonAfterCallBefore /\ CallBeforeAlertedAll) =>
          (returned = <<>> /\ alerts = LastCall.before)

\* A first call alerted for two years; the second call, half an hour later
\* with the same threshold, created nothing.
C30_Witness ==
    /\ Len(log) = 2
    /\ LastCall.time = CallBefore.time + 1
    /\ LastCall.threshold = CallBefore.threshold
    /\ CallBefore.before = <<>>
    /\ Len(alerts) = 2
    /\ returned = <<>>

============================================================================
